---- MODULE Spec2Model ----
(***************************************************************************)
(* Verification model of codepuree/s-bahn-prediction.                      *)
(*                                                                         *)
(*   Spec       the feed session of src/bin/scraper.rs (connect, handshake,*)
(*              blocking read loop, heartbeat, reconnect, raw log)         *)
(*   FairSpec   Spec with the fairness the sequential control flow gives   *)
(*   CoordSpec  Coordinate::try_from (src/bin/analysis.rs) applied to      *)
(*              bounded JSON values                                        *)
(*   ExtractSpec the four Extractor<T>::extract (src/bin/analysis.rs)      *)
(*              applied to bounded property maps                           *)
(*   ColorSpec  try_color_from_string (src/bin/analysis.rs) applied to     *)
(*              bounded strings                                            *)
(*   ScanSpec   the offline scan of src/bin/analysis.rs main over a        *)
(*              bounded log                                                *)
(*   ReplaySpec the scan of logs of decodable records followed by the      *)
(*              render loop of src/bin/analysis.rs main                    *)
(***************************************************************************)
EXTENDS Integers, Sequences, FiniteSets, TLC

VARIABLES
    pc,           \* scraper: position of main ("connect", "read", "panicked")
    sent,         \* scraper: commands passed to socket.send on the current connection
    log,          \* scraper: bytes of s-bahn-munich-live-map.jsonl
    prior,        \* scraper: bytes the log held when the run opened it (history)
    now,          \* scraper: SystemTime::now() in seconds
    last_ping,    \* scraper: the local last_ping
    received,     \* scraper: every frame socket.read returned, all connections (history)
    recvAtConnect,\* scraper: Len(received) when the current connection was made (history)
    connections,  \* scraper: successful tungstenite::connect calls so far (history)
    fatal,        \* scraper: the message of the panic that ended main, or ""
    arg,          \* pure-function harness: the input value
    ret,          \* pure-function harness: the outcome of the call, or NotCalled
    lines,        \* scan: the lines of the log file
    cursor,       \* scan: lines consumed so far by reader.lines()
    scan,         \* scan: "scanning", "done" (loop ended), "panicked"
    trains,       \* scan: the counter trains
    counters,     \* scan: delays, states, ride_states, original_lines, lines
    persistent_trains, \* scan: Trains, vehicle number -> records
    report,       \* scan: per consumed line, what happened to it (history)
    inserted,     \* scan: the records passed to Trains::insert, in call order (history)
    frame,        \* replay: the local i of the render loop of main
    surface,      \* replay: the index rendered and the calls of the latest loop pass
    yielded       \* replay: main is suspended in next_frame().await

scraperVars == <<pc, sent, log, prior, now, last_ping, received, recvAtConnect,
                 connections, fatal>>
pureVars == <<arg, ret>>
scanVars == <<lines, cursor, scan, trains, counters, persistent_trains, report>>
replayVars == <<inserted, frame, surface, yielded>>
vars == <<scraperVars, pureVars, scanVars, replayVars>>

Last(s) == s[Len(s)]

-----------------------------------------------------------------------------
(* Bounds of the model *)

MaxFrames == 2        \* frames received in one run
MaxConns == 2         \* successful connections in one run
MaxTime == 20         \* seconds of wall clock observed
MaxLines == 2         \* lines of the log scanned
MaxArrayLen == 3      \* entries of a raw_coordinates array
MaxReplayLines == 3   \* lines of a log that is scanned and then replayed
LongRunLen == 996     \* lines of the long log of one vehicle that is replayed
MaxColorLen == 8      \* characters of a colour string

-----------------------------------------------------------------------------
(* scraper.rs *)

LF == "\n"
CR == "\r"

PingThreshold == 10

PING == <<"PING">>

\* The swapped GET/SUB order a copy-paste slip would give.
HandshakeCommandsSubFirst ==
    << <<"BBOX", "1152072 6048052 1433666 6205578 5 tenant=sbm">>,
       <<"BUFFER", "100 100">>,
       <<"SUB", "extra_geoms">>, <<"GET", "extra_geoms">>,
       <<"GET", "healthcheck">>, <<"SUB", "healthcheck">>,
       <<"GET", "sbm_newsticker">>, <<"SUB", "sbm_newsticker">>,
       <<"GET", "station_schematic">>, <<"SUB", "station_schematic">>,
       <<"GET", "deleted_vehicles_schematic">>, <<"SUB", "deleted_vehicles_schematic">>,
       <<"GET", "trajectory_schematic">>, <<"SUB", "trajectory_schematic">>,
       <<"GET", "station">>, <<"SUB", "station">>,
       <<"GET", "deleted_vehicles">>, <<"SUB", "deleted_vehicles">>,
       <<"GET", "trajectory">>, <<"SUB", "trajectory">>,
       PING >>

\* The socket.send calls of lines 24-45, in program order.  A command is the
\* tuple of its space-separated verb and argument.
HandshakeCommands ==
    << <<"BBOX", "1152072 6048052 1433666 6205578 5 tenant=sbm">>,
       <<"BUFFER", "100 100">>,
       <<"GET", "extra_geoms">>, <<"SUB", "extra_geoms">>,
       <<"GET", "healthcheck">>, <<"SUB", "healthcheck">>,
       <<"GET", "sbm_newsticker">>, <<"SUB", "sbm_newsticker">>,
       <<"GET", "station_schematic">>, <<"SUB", "station_schematic">>,
       <<"GET", "deleted_vehicles_schematic">>, <<"SUB", "deleted_vehicles_schematic">>,
       <<"GET", "trajectory_schematic">>, <<"SUB", "trajectory_schematic">>,
       <<"GET", "station">>, <<"SUB", "station">>,
       <<"GET", "deleted_vehicles">>, <<"SUB", "deleted_vehicles">>,
       <<"GET", "trajectory">>, <<"SUB", "trajectory">>,
       PING >>

\* Payloads of text frames, as character sequences: a one-line payload and a
\* payload with a line feed inside.
TextPayloads == { <<"x">>, <<"y", LF, "z">>, <<"w", CR>> }

\* tungstenite::Message as socket.read returns it.
Frames ==
    [type : {"Text"}, payload : TextPayloads]
        \cup [type : {"Binary", "Ping", "Pong", "Close"}, payload : {<<>>}]

\* What the log may hold when the run opens it: nothing, lines of earlier
\* runs, or earlier content whose last line has no line feed (what a run
\* leaves whose write to the log failed).
PriorLogs == { <<>>, <<"p", LF>>, <<"q">> }

\* A log write that drops the line terminator.
WriteLnNoTerminator(file, text) == file \o text

\* writeln!(out_file, "{text}") on a file opened with append(true).
WriteLn(file, text) == file \o text \o <<LF>>

\* last_ping.elapsed() >= Duration::from_secs(10)
PingDue(t, last) == t - last >= PingThreshold

ScraperInit ==
    /\ pc = "connect"
    /\ sent = <<>>
    /\ prior \in PriorLogs
    /\ log = prior
    /\ now = 0
    /\ last_ping = 0
    /\ received = <<>>
    /\ recvAtConnect = 0
    /\ connections = 0
    /\ fatal = ""

\* One pass of the outer loop up to the inner loop, lines 23-46:
\* tungstenite::connect(..) returns Ok, then every `let _ = socket.send(..)`
\* in program order (the results are discarded, so a failed send changes
\* nothing), then last_ping = SystemTime::now().
ConnectOk ==
    /\ pc = "connect"
    /\ connections < MaxConns
    /\ pc' = "read"
    /\ sent' = HandshakeCommands
    /\ last_ping' = now
    /\ recvAtConnect' = Len(received)
    /\ connections' = connections + 1
    /\ UNCHANGED <<log, prior, now, received, fatal>>
    /\ UNCHANGED <<pureVars, scanVars, replayVars>>

\* tungstenite::connect(..) returns Err: .expect("should be able to connect")
\* panics, on the first pass of the outer loop and on every later one.
ConnectFail ==
    /\ pc = "connect"
    /\ pc' = "panicked"
    /\ fatal' = "should be able to connect"
    /\ UNCHANGED <<sent, log, prior, now, last_ping, received,
                   recvAtConnect, connections>>
    /\ UNCHANGED <<pureVars, scanVars, replayVars>>

\* A timer-driven heartbeat: the clock advances and a due PING goes out
\* without any frame.
TickWithTimer ==
    /\ pc # "panicked"
    /\ now < MaxTime
    /\ now' = now + 1
    /\ IF pc = "read" /\ PingDue(now + 1, last_ping)
       THEN /\ sent' = Append(sent, PING)
            /\ last_ping' = now + 1
       ELSE UNCHANGED <<sent, last_ping>>
    /\ UNCHANGED <<pc, log, prior, received, recvAtConnect, connections, fatal>>
    /\ UNCHANGED <<pureVars, scanVars, replayVars>>

\* Time passes while main is blocked in connect, send or socket.read():
\* nothing else of the program's state changes.  The wall clock only moves
\* forward here (it is never set back during the run).
Tick ==
    /\ pc # "panicked"
    /\ now < MaxTime
    /\ now' = now + 1
    /\ UNCHANGED <<pc, sent, log, prior, last_ping, received,
                   recvAtConnect, connections, fatal>>
    /\ UNCHANGED <<pureVars, scanVars, replayVars>>

\* socket.read() returns Ok(msg): one pass of the inner loop, lines 49-68,
\* with the log write succeeding.  last_ping.elapsed() is Err, and
\* .expect("Valid time") panics, when the clock is behind last_ping.
RecvFrame(f) ==
    /\ pc = "read"
    /\ Len(received) < MaxFrames
    /\ received' = Append(received, f)
    /\ log' = IF f.type = "Text" THEN WriteLn(log, f.payload) ELSE log
    /\ IF f.type = "Close"
       THEN /\ pc' = "connect"
            /\ UNCHANGED <<sent, last_ping, fatal>>
       ELSE IF now < last_ping
       THEN /\ pc' = "panicked"
            /\ fatal' = "Valid time"
            /\ UNCHANGED <<sent, last_ping>>
       ELSE /\ pc' = "read"
            /\ IF PingDue(now, last_ping)
               THEN /\ sent' = Append(sent, PING)
                    /\ last_ping' = now
               ELSE UNCHANGED <<sent, last_ping>>
            /\ UNCHANGED fatal
    /\ UNCHANGED <<prior, now, recvAtConnect, connections>>
    /\ UNCHANGED <<pureVars, scanVars, replayVars>>

\* socket.read() returns Ok(Text(text)) and writeln! fails after n bytes of
\* the line have reached the file: .expect("writing message to file without
\* error") panics.
WriteFail(f, n) ==
    /\ pc = "read"
    /\ Len(received) < MaxFrames
    /\ f.type = "Text"
    /\ n \in 0..Len(f.payload)
    /\ received' = Append(received, f)
    /\ log' = log \o SubSeq(f.payload, 1, n)
    /\ pc' = "panicked"
    /\ fatal' = "writing message to file without error"
    /\ UNCHANGED <<sent, prior, now, last_ping, recvAtConnect, connections>>
    /\ UNCHANGED <<pureVars, scanVars, replayVars>>

\* socket.read() returns Err(err): eprintln, break, back to the outer loop.
ReadErr ==
    /\ pc = "read"
    /\ pc' = "connect"
    /\ UNCHANGED <<sent, log, prior, now, last_ping, received,
                   recvAtConnect, connections, fatal>>
    /\ UNCHANGED <<pureVars, scanVars, replayVars>>

-----------------------------------------------------------------------------
(* analysis.rs: JSON values *)

\* serde_json::Value.  A number carries its value in hundredths (c = 100 * x),
\* so that 11.58 and 1.5 are values, and whether its text has a fraction or an
\* exponent (serde_json keeps such a number as a float, 3.0 as well as 1.5):
\* JNum(300) is 3.0, JInt(3) is 3.
JNull == [k |-> "null"]
JBool(b) == [k |-> "bool", b |-> b]
JNum(c) == [k |-> "num", c |-> c, float |-> TRUE]
JInt(i) == [k |-> "num", c |-> 100 * i, float |-> FALSE]
JStr(s) == [k |-> "str", s |-> s]
JArr(a) == [k |-> "arr", a |-> a]
JObj(o) == [k |-> "obj", o |-> o]

\* Option<T>
None == [some |-> FALSE]
Some(v) == [some |-> TRUE, v |-> v]

\* Result<T, AnalysisError>, and the third outcome of a call: a panic.
Ok(v) == [tag |-> "Ok", v |-> v]
Err(e) == [tag |-> "Err", e |-> e]
Panic(msg) == [tag |-> "Panic", msg |-> msg]
NotCalled == [tag |-> "NotCalled"]

\* enum AnalysisError
MissingProperty(name) == <<"MissingProperty", name>>
IncorrectType(expected, actual) == <<"IncorrectType", expected, actual>>
IncorrectValueType(expected, value, actual) == <<"IncorrectValueType", expected, value, actual>>
MissingItems(expected, actual) == <<"MissingItems", expected, actual>>

\* Number::as_f64: every JSON number has one (the value, in hundredths).
AsF64(v) == v.c

\* Number::as_i64: only a number kept as an integer; None for every float,
\* whole or not.
AsI64(v) == IF v.float THEN None ELSE Some(v.c \div 100)

\* Map::get on the properties of a feature (a function from key to Value).
Get(o, key) == IF key \in DOMAIN o THEN Some(o[key]) ELSE None

-----------------------------------------------------------------------------
(* analysis.rs: Coordinate *)

\* Coordinate::try_from with the two pops read in the opposite order.
CoordinateTryFromSwapped(value) ==
    IF value.k # "arr"
    THEN Err(IncorrectType("Value::Array", "Any other type"))
    ELSE IF Len(value.a) # 2
    THEN Err(MissingItems(3, Len(value.a)))
    ELSE IF value.a[1].k # "num"
    THEN Panic("'latitude' must exist")
    ELSE IF value.a[2].k # "num"
    THEN Panic("'longitude' must exist")
    ELSE Ok([latitude |-> AsF64(value.a[1]), longitude |-> AsF64(value.a[2])])

\* impl TryFrom<serde_json::Value> for Coordinate.  array.pop() takes the last
\* element: latitude is read first, from index 1, then longitude from index 0;
\* .filter(is a Number).expect(..) panics on an entry that is no number.
CoordinateTryFrom(value) ==
    IF value.k # "arr"
    THEN Err(IncorrectType("Value::Array", "Any other type"))
    ELSE IF Len(value.a) # 2
    THEN Err(MissingItems(3, Len(value.a)))
    ELSE IF value.a[2].k # "num"
    THEN Panic("'latitude' must exist")
    ELSE IF value.a[1].k # "num"
    THEN Panic("'longitude' must exist")
    ELSE Ok([latitude |-> AsF64(value.a[2]), longitude |-> AsF64(value.a[1])])

\* Entries of a raw_coordinates array: 11.58, 48.14, an integer, a string, null.
CoordEntries == { JNum(1158), JNum(4814), JInt(12), JStr("11.58"), JNull }

SeqsUpTo(S, n) == UNION { [1..m -> S] : m \in 0..n }

\* Values handed to Coordinate::try_from: arrays of up to MaxArrayLen entries,
\* and values that are no array.
CoordInputs ==
    { JArr(a) : a \in SeqsUpTo(CoordEntries, MaxArrayLen) }
        \cup { JNull, JStr("11.58,48.14"), JNum(1158) }

CoordInit == arg \in CoordInputs /\ ret = NotCalled

\* value.try_into() on a raw_coordinates value.
CallCoordinate ==
    /\ ret = NotCalled
    /\ arg \in CoordInputs
    /\ ret' = CoordinateTryFrom(arg)
    /\ UNCHANGED <<arg, scraperVars, scanVars, replayVars>>

-----------------------------------------------------------------------------
(* analysis.rs: typed accessors, Line, Train *)

\* The first outcome of `steps` that is not Ok (an Err returned by `?`, or a
\* panic), as the field expressions of a struct literal are evaluated in
\* the order written; Ok(value) when every step is Ok.
InOrder(steps, value) ==
    IF \E i \in DOMAIN steps : steps[i].tag # "Ok"
    THEN steps[CHOOSE i \in DOMAIN steps :
                  /\ steps[i].tag # "Ok"
                  /\ \A j \in 1..(i - 1) : steps[j].tag = "Ok"]
    ELSE Ok(value)

\* impl Extractor<String>
ExtractString(o, field_name) ==
    LET got == Get(o, field_name) IN
    IF ~got.some THEN Err(MissingProperty(field_name))
    ELSE IF got.v.k = "str" THEN Ok(got.v.s)
    ELSE Err(IncorrectValueType("String", got.v, "serde_json::value::Value"))

\* impl Extractor<Option<String>>
ExtractOptString(o, field_name) ==
    LET got == Get(o, field_name) IN
    IF ~got.some THEN Ok(None)
    ELSE IF got.v.k = "str" THEN Ok(Some(got.v.s))
    ELSE IF got.v.k = "null" THEN Ok(None)
    ELSE Err(IncorrectValueType("String", got.v, "&serde_json::value::Value"))

\* impl Extractor<i64>: as_i64().expect("must be integer") panics on a number
\* with a fractional part.
ExtractI64(o, field_name) ==
    LET got == Get(o, field_name) IN
    IF ~got.some THEN Err(MissingProperty(field_name))
    ELSE IF got.v.k = "num"
         THEN (IF AsI64(got.v).some THEN Ok(AsI64(got.v).v) ELSE Panic("must be integer"))
    ELSE Err(IncorrectValueType("i64", got.v, "serde_json::value::Value"))

\* impl Extractor<Option<i64>>: a number with a fractional part gives Ok(None).
ExtractOptI64(o, field_name) ==
    LET got == Get(o, field_name) IN
    IF ~got.some THEN Ok(None)
    ELSE IF got.v.k = "num" THEN Ok(AsI64(got.v))
    ELSE IF got.v.k = "null" THEN Ok(None)
    ELSE Err(IncorrectValueType("Option<i64>", got.v, "serde_json::value::Value"))

\* Extractor<T>::extract for the four T the map implements it for.
Extract(accessor, o, field_name) ==
    CASE accessor = "String" -> ExtractString(o, field_name)
      [] accessor = "Option<String>" -> ExtractOptString(o, field_name)
      [] accessor = "i64" -> ExtractI64(o, field_name)
      [] accessor = "Option<i64>" -> ExtractOptI64(o, field_name)

\* Property maps and calls of extract: the field absent, or present with a
\* value of each JSON kind, next to another key or alone.
ExtractValues ==
    { JNull, JBool(TRUE), JInt(7), JNum(150), JNum(300), JStr("x"), JArr(<<>>),
      JObj([id |-> JInt(3)]) }
ExtractFields == {"id", "train_number"}
ExtractMaps(field_name) ==
    LET present == { (field_name :> v) : v \in ExtractValues } \cup { <<>> }
    IN present \cup { m @@ ("other" :> JStr("y")) : m \in present }
ExtractInputs ==
    UNION { { [accessor |-> a, map |-> m, field_name |-> f] :
                a \in {"String", "Option<String>", "i64", "Option<i64>"},
                m \in ExtractMaps(f) } : f \in ExtractFields }

ExtractInit == arg \in ExtractInputs /\ ret = NotCalled

\* One call of extract.
CallExtract ==
    /\ ret = NotCalled
    /\ arg \in ExtractInputs
    /\ ret' = Extract(arg.accessor, arg.map, arg.field_name)
    /\ UNCHANGED <<arg, scraperVars, scanVars, replayVars>>

\* properties.get(name).map_or(false, |v| match v { Value::Bool(b) => *b, _ => false })
BoolOrFalse(o, field_name) ==
    LET got == Get(o, field_name) IN
    IF got.some /\ got.v.k = "bool" THEN got.v.b ELSE FALSE

\* impl TryFrom<Value> for Line
LineTryFrom(value) ==
    IF value.k # "obj"
    THEN Err(IncorrectType("Value::Object", "serde_json::value::Value"))
    ELSE LET object == value.o
             color == ExtractString(object, "color")
             id == ExtractI64(object, "id")
             name == ExtractString(object, "name")
             stroke == ExtractString(object, "stroke")
             text_color == ExtractString(object, "text_color")
         IN InOrder(<<color, id, name, stroke, text_color>>,
                    [color |-> color.v, id |-> id.v, name |-> name.v,
                     stroke |-> stroke.v, text_color |-> text_color.v])

\* properties.get("line").filter(|l| !l.is_null()).map(|l| l.to_owned().try_into()).transpose()?
TrainLine(properties) ==
    LET got == Get(properties, "line") IN
    IF ~got.some \/ got.v.k = "null" THEN Ok(None)
    ELSE LET line == LineTryFrom(got.v) IN
         IF line.tag = "Ok" THEN Ok(Some(line.v)) ELSE line

\* properties.get("raw_coordinates").map(|x| x.clone().try_into().unwrap()):
\* unwrap panics on every Err of Coordinate::try_from.
TrainRawCoordinates(properties) ==
    LET got == Get(properties, "raw_coordinates") IN
    IF ~got.some THEN Ok(None)
    ELSE LET c == CoordinateTryFrom(got.v) IN
         IF c.tag = "Ok" THEN Ok(Some(c.v))
         ELSE IF c.tag = "Err" THEN Panic("called Result::unwrap() on an Err value")
         ELSE c

\* impl TryFrom<Content> for Train, on a decoded Content.
TrainTryFrom(content) ==
    IF content.variant # "TrajectorySchematic"
    THEN Err(IncorrectType("TrajectorySchematic", "scraper::response_messages::Content"))
    ELSE IF content.shape # "Feature"
    THEN Err(IncorrectType("Feature", "geojson::geojson::GeoJson"))
    ELSE IF ~content.properties.some
    THEN Err(IncorrectType("Properties",
                           "core::option::Option<serde_json::map::Map<alloc::string::String, serde_json::value::Value>>"))
    ELSE LET properties == content.properties.v
             delay == ExtractOptString(properties, "delay")
             line == TrainLine(properties)
             operator == ExtractString(properties, "operator_provides_realtime_journey")
             original_line == ExtractOptString(properties, "original_line")
             original_rake == ExtractOptString(properties, "original_rake")
             rake == ExtractOptString(properties, "rake")
             raw_coordinates == TrainRawCoordinates(properties)
             ride_state == ExtractOptString(properties, "ride_state")
             state == ExtractOptString(properties, "state")
             tenant == ExtractString(properties, "tenant")
             train_id == ExtractString(properties, "train_id")
             train_number == ExtractOptI64(properties, "train_number")
             transmitting_vehicle == ExtractOptString(properties, "transmitting_vehicle")
             vehicle_number == ExtractOptString(properties, "vehicle_number")
         IN InOrder(
              <<delay, line, operator, original_line, original_rake, rake,
                raw_coordinates, ride_state, state, tenant, train_id, train_number,
                transmitting_vehicle, vehicle_number>>,
              [delay |-> delay.v,
               has_journey |-> BoolOrFalse(properties, "has_journey"),
               has_realtime |-> BoolOrFalse(properties, "has_realtime"),
               has_realtime_journey |-> BoolOrFalse(properties, "has_realtime_journey"),
               line |-> line.v,
               operator_provides_realtime_journey |-> operator.v,
               original_line |-> original_line.v,
               original_rake |-> original_rake.v,
               original_train_number |-> 0,
               position_correction |-> 0,
               rake |-> rake.v,
               raw_coordinates |-> raw_coordinates.v,
               ride_state |-> ride_state.v,
               state |-> state.v,
               tenant |-> tenant.v,
               train_id |-> train_id.v,
               train_number |-> train_number.v,
               transmitting_vehicle |-> transmitting_vehicle.v,
               vehicle_number |-> vehicle_number.v])

-----------------------------------------------------------------------------
(* analysis.rs: colour, Record *)

\* The UTF-8 bytes of the strings that occur as a line colour in the scanned
\* lines (all ASCII: one byte per character).
Bytes(s) ==
    CASE s = "#1A2B3C" -> <<"#", "1", "A", "2", "B", "3", "C">>
      [] s = "1A2B3C" -> <<"1", "A", "2", "B", "3", "C">>
      [] s = "#GGHHII" -> <<"#", "G", "G", "H", "H", "I", "I">>
      [] s = "#12" -> <<"#", "1", "2">>
      [] s = "#0A0B0C" -> <<"#", "0", "A", "0", "B", "0", "C">>

\* The two bytes of a character outside ASCII (U+00E9): a lead byte and a
\* continuation byte.
LeadByte == "0xC3"
ContinuationByte == "0xA9"

\* str::is_char_boundary(n), n a 0-based byte index: the start, the end, or
\* a byte that is no continuation byte; false past the end.
IsCharBoundary(bs, n) ==
    \/ n = 0
    \/ n = Len(bs)
    \/ (n < Len(bs) /\ bs[n + 1] # ContinuationByte)

HexAlphabet ==
    <<"0", "1", "2", "3", "4", "5", "6", "7", "8", "9",
      "A", "B", "C", "D", "E", "F", "a", "b", "c", "d", "e", "f">>

IsHexDigit(c) == \E i \in DOMAIN HexAlphabet : HexAlphabet[i] = c

HexValue(c) ==
    LET i == CHOOSE j \in DOMAIN HexAlphabet : HexAlphabet[j] = c
    IN IF i <= 16 THEN i - 1 ELSE i - 7

RECURSIVE HexNumber(_, _)
HexNumber(digits, acc) ==
    IF digits = <<>> THEN acc
    ELSE HexNumber(Tail(digits), 16 * acc + HexValue(Head(digits)))

\* u8::from_str_radix(src, 16): one leading '+' is allowed, the rest must be
\* hex digits (at least one), and the value must fit a u8.
U8FromStrRadix16(src) ==
    LET digits == IF src # <<>> /\ Head(src) = "+" THEN Tail(src) ELSE src IN
    IF src = <<>> THEN Err("Empty")
    ELSE IF digits = <<>> THEN Err("InvalidDigit")
    ELSE IF \E i \in DOMAIN digits : ~IsHexDigit(digits[i]) THEN Err("InvalidDigit")
    ELSE IF HexNumber(digits, 0) > 255 THEN Err("PosOverflow")
    ELSE Ok(HexNumber(digits, 0))

\* fn try_color_from_string, on the bytes of s.  &s[a..b] panics when b is
\* past the end of s or inside a character (a is '#' + 1 or the b of the
\* slice before, so it is a boundary); r, g and b are sliced and parsed one
\* after the other.  A channel is the numerator of byte / 255.0, alpha 1.0
\* is 255 / 255.
TryColorFromBytes(bs) ==
    LET r == U8FromStrRadix16(SubSeq(bs, 2, 3))
        g == U8FromStrRadix16(SubSeq(bs, 4, 5))
        b == U8FromStrRadix16(SubSeq(bs, 6, 7))
    IN IF bs = <<>> \/ bs[1] # "#" THEN Err(<<"WrongBeginning">>)
       ELSE IF Len(bs) < 3 THEN Panic("byte index 3 is out of bounds")
       ELSE IF ~IsCharBoundary(bs, 3) THEN Panic("byte index 3 is not a char boundary")
       ELSE IF r.tag # "Ok" THEN Err(<<"ParseInt", r.e>>)
       ELSE IF Len(bs) < 5 THEN Panic("byte index 5 is out of bounds")
       ELSE IF ~IsCharBoundary(bs, 5) THEN Panic("byte index 5 is not a char boundary")
       ELSE IF g.tag # "Ok" THEN Err(<<"ParseInt", g.e>>)
       ELSE IF Len(bs) < 7 THEN Panic("byte index 7 is out of bounds")
       ELSE IF ~IsCharBoundary(bs, 7) THEN Panic("byte index 7 is not a char boundary")
       ELSE IF b.tag # "Ok" THEN Err(<<"ParseInt", b.e>>)
       ELSE Ok([r |-> r.v, g |-> g.v, b |-> b.v, a |-> 255])

\* try_color_from_string on a string of the scanned lines.
TryColorFromString(s) == TryColorFromBytes(Bytes(s))

\* Colour strings, as bytes: every string of up to MaxColorLen characters over
\* '#', two hex digits and a letter that is no hex digit, two of seven
\* characters with a sign, and three with a character of two bytes.
ColorAlphabet == {"#", "1", "A", "G"}
ColorInputs ==
    SeqsUpTo(ColorAlphabet, MaxColorLen)
      \cup { <<"#", "+", "A", "+", "1", "+", "A">>,
              <<"#", "-", "A", "1", "1", "A", "A">>,
              <<"#", "1", "A", "1", "A", "1", LeadByte, ContinuationByte>>,
              <<"#", "1", LeadByte, ContinuationByte, "1", "A", "1", "A">>,
              <<"#", LeadByte, ContinuationByte>> }

ColorInit == arg \in ColorInputs /\ ret = NotCalled

\* One call of try_color_from_string.
CallColor ==
    /\ ret = NotCalled
    /\ arg \in ColorInputs
    /\ ret' = TryColorFromBytes(arg)
    /\ UNCHANGED <<arg, scraperVars, scanVars, replayVars>>

\* impl Display for ColorConversionError
ColorConversionErrorToString(cce) ==
    IF cce[1] = "WrongBeginning" THEN "does not start with '#'"
    ELSE IF cce[2] = "InvalidDigit" THEN "ParseIntError { kind: InvalidDigit }"
    ELSE IF cce[2] = "Empty" THEN "ParseIntError { kind: Empty }"
    ELSE "ParseIntError { kind: PosOverflow }"

\* impl From<String> for State
StateFrom(value) == IF value = "DRIVING" THEN "Driving" ELSE "Boarding"

\* properties.get("line") .. .as_object() .. .get(key) .. .as_str() of
\* Record::try_from, for key "name" and key "color".
RecordLineString(properties, key) ==
    LET line == Get(properties, "line") IN
    IF ~line.some THEN Err(MissingProperty("line"))
    ELSE IF line.v.k # "obj" THEN Err(IncorrectType("object", "unknown"))
    ELSE LET got == Get(line.v.o, key) IN
         IF ~got.some THEN Err(MissingProperty(key))
         ELSE IF got.v.k # "str" THEN Err(IncorrectType("string", "unknown"))
         ELSE Ok(got.v.s)

\* properties.get(key) .. .as_str().ok_or(MissingProperty(key)) of Record::try_from.
RecordString(properties, key) ==
    LET got == Get(properties, key) IN
    IF ~got.some \/ got.v.k # "str" THEN Err(MissingProperty(key)) ELSE Ok(got.v.s)

\* impl TryFrom<ResponseMessage> for Record.
RecordTryFrom(value) ==
    IF value.content.variant = "DeletedVehiclesSchematic"
    THEN Panic("not yet implemented")
    ELSE IF value.content.variant # "TrajectorySchematic"
    THEN Err(IncorrectType("Content::TrajectorySchematic", "scraper::response_messages::Content"))
    ELSE IF value.content.shape # "Feature"
    THEN Err(IncorrectType("GeoJson::Feature", "geojson::geojson::GeoJson"))
    ELSE IF ~value.content.properties.some
    THEN Err(MissingProperty("properties"))
    ELSE LET properties == value.content.properties.v
             raw == Get(properties, "raw_coordinates")
             position == IF ~raw.some THEN Err(MissingProperty("raw_coordinates"))
                         ELSE CoordinateTryFrom(raw.v)
             line == RecordLineString(properties, "name")
             color_string == RecordLineString(properties, "color")
             parsed == TryColorFromString(color_string.v)
             line_color == IF color_string.tag # "Ok" THEN color_string
                           ELSE IF parsed.tag = "Err"
                           THEN Err(IncorrectType("Color", ColorConversionErrorToString(parsed.e)))
                           ELSE parsed
             state == RecordString(properties, "state")
             vehicle_number == RecordString(properties, "vehicle_number")
             number == Get(properties, "train_number")
             train_number == IF ~number.some THEN Err(MissingProperty("train_number"))
                             ELSE IF number.v.k # "num" \/ ~AsI64(number.v).some
                             THEN Err(IncorrectType("i64", "unknown"))
                             ELSE Ok(AsI64(number.v).v)
         IN InOrder(
              <<position, line, line_color, state, vehicle_number, train_number>>,
              [timestamp |-> value.timestamp,
               position |-> position.v,
               line |-> line.v,
               line_color |-> line_color.v,
               state |-> StateFrom(state.v),
               vehicle_number |-> vehicle_number.v,
               train_number |-> train_number.v])

-----------------------------------------------------------------------------
(* response_messages.rs: the envelope *)

\* #[serde(rename = ..)] of enum Content: discriminator -> variant.
KnownSources ==
    [trajectory_schematic |-> "TrajectorySchematic",
     deleted_vehicles_schematic |-> "DeletedVehiclesSchematic",
     station_schematic |-> "StationSchematic",
     websocket |-> "Websocket",
     extra_geoms |-> "ExtraGeoms",
     healthcheck |-> "Healthcheck",
     sbm_newsticker |-> "SbmNewsTicker",
     trajectory |-> "Trajectory",
     deleted_vehicles |-> "DeletedVehicles",
     station |-> "Station"]

\* The variants whose payload is a GeoJson.
GeoVariants == {"TrajectorySchematic", "StationSchematic", "Trajectory", "Station"}

\* Whether the "content" of a line deserializes as the payload of `variant`.
\* A content is [shape, properties, fits].  shape is what the content is as
\* a GeoJson: the kind ("Feature", "FeatureCollection", "Geometry"), or
\* "Other" / "Invalid" for a value that is no GeoJson.  fits is the set of
\* the other variants whose payload type accepts the content.  The two are
\* independent: the payload structs ignore unknown keys and a GeoJson keeps
\* foreign members, so a Feature with properties {"ref": ..} is a GeoJson
\* and an ExtraGeoms as well.
ContentFits(variant, content) ==
    IF variant \in GeoVariants
    THEN content.shape \in {"Feature", "FeatureCollection", "Geometry"}
    ELSE variant \in content.fits

\* client_reference: Option<i8>: absent, null, or an integer that fits an i8.
FitsI8(reference) == ~reference.some \/ reference.v \in -128..127

\* serde_json::from_str::<ResponseMessage>(&line).  The struct flattens
\* `content`: its own fields are read while the keys are visited (a
\* client_reference that is no i8 fails there), a missing timestamp is
\* reported when the keys are exhausted, and only then is the enum decoded
\* from the keys left over.  enum Content is adjacently tagged (tag =
\* "source", content = "content") and has no catch-all variant, so a
\* discriminator outside KnownSources is an error ("unknown variant").
DecodeEnvelope(line) ==
    IF line.form # "json" THEN Err("syntax")
    ELSE IF ~FitsI8(line.client_reference) THEN Err("invalid value")
    ELSE IF ~line.timestamp.some THEN Err("missing field timestamp")
    ELSE IF ~line.source.some THEN Err("missing field source")
    ELSE IF line.source.v \notin DOMAIN KnownSources THEN Err("unknown variant")
    ELSE IF ~ContentFits(KnownSources[line.source.v], line.content) THEN Err("data")
    ELSE LET variant == KnownSources[line.source.v]
             geo == variant \in GeoVariants
         IN Ok([content |-> [variant |-> variant,
                             shape |-> IF geo THEN line.content.shape ELSE "Other",
                             properties |-> IF geo THEN line.content.properties
                                            ELSE None],
                timestamp |-> line.timestamp.v])

-----------------------------------------------------------------------------
(* analysis.rs: Counter, Trains, the scan of main *)

\* Counter::insert
CounterInsert(counter, key) ==
    IF key \in DOMAIN counter THEN [counter EXCEPT ![key] = @ + 1]
    ELSE counter @@ (key :> 1)

\* An insert that keeps a timeline sorted by timestamp.
TrainsInsertByTime(history, r) ==
    IF r.vehicle_number \in DOMAIN history
    THEN LET old == history[r.vehicle_number] IN
         [history EXCEPT ![r.vehicle_number] =
            SelectSeq(old, LAMBDA x : x.timestamp <= r.timestamp) \o <<r>>
              \o SelectSeq(old, LAMBDA x : x.timestamp > r.timestamp)]
    ELSE history @@ (r.vehicle_number :> <<r>>)

\* Trains::insert, with Vehicle::from_record and Vehicle::update.
TrainsInsert(history, r) ==
    IF r.vehicle_number \in DOMAIN history
    THEN [history EXCEPT ![r.vehicle_number] = Append(@, r)]
    ELSE history @@ (r.vehicle_number :> <<r>>)

\* The Ok(train) arm of main: trains += 1 and the five counters.
CountTrain(cs, train) ==
    [delays |-> CounterInsert(cs.delays, train.delay),
     states |-> CounterInsert(cs.states, train.state),
     ride_states |-> CounterInsert(cs.ride_states, train.ride_state),
     original_lines |-> CounterInsert(cs.original_lines, train.original_line),
     lines |-> CounterInsert(cs.lines, train.line)]

\* Property maps of trajectory features.
BaseLine ==
    [color |-> JStr("#1A2B3C"), id |-> JInt(3), name |-> JStr("S3"),
     stroke |-> JStr("#000000"), text_color |-> JStr("#FFFFFF")]

BaseProperties ==
    [delay |-> JNull,
     has_journey |-> JBool(TRUE),
     has_realtime |-> JBool(TRUE),
     has_realtime_journey |-> JBool(FALSE),
     line |-> JObj(BaseLine),
     operator_provides_realtime_journey |-> JStr("unknown"),
     original_line |-> JNull,
     original_rake |-> JNull,
     rake |-> JStr("948004231502"),
     raw_coordinates |-> JArr(<<JNum(1158), JNum(4814)>>),
     ride_state |-> JStr("K"),
     state |-> JStr("DRIVING"),
     tenant |-> JStr("sbm"),
     train_id |-> JStr("sbm_140404727073712"),
     train_number |-> JInt(6389),
     transmitting_vehicle |-> JStr("948004231502"),
     vehicle_number |-> JStr("V1")]

With(o, key, v) == [o EXCEPT ![key] = v]
Without(o, key) == [x \in DOMAIN o \ {key} |-> o[x]]

PropertyMaps ==
    { BaseProperties,
      With(BaseProperties, "vehicle_number", JStr("V2")),
      With(BaseProperties, "state", JStr("BOARDING")),
      With(BaseProperties, "delay", JInt(60000)),
      With(BaseProperties, "tenant", JInt(1)) }
    \cup { Without(BaseProperties, key) :
             key \in {"raw_coordinates", "line", "train_id", "vehicle_number",
                      "train_number", "state"} }
    \cup { With(BaseProperties, "raw_coordinates", v) :
             v \in { JArr(<<>>), JArr(<<JNum(1158), JNum(4814), JInt(0)>>),
                     JArr(<<JStr("11.58"), JNum(4814)>>), JStr("11.58,48.14") } }
    \cup { With(BaseProperties, "line", v) :
             v \in { JNull, JStr("S3"),
                     JObj(With(BaseLine, "color", JStr("1A2B3C"))),
                     JObj(With(BaseLine, "color", JStr("#GGHHII"))),
                     JObj(With(BaseLine, "color", JStr("#12"))),
                     JObj(With(BaseLine, "id", JNum(150))),
                     JObj(With(BaseLine, "id", JNum(300))),
                     JObj(Without(BaseLine, "stroke")) } }
    \cup { With(BaseProperties, "train_number", v) :
             v \in { JNull, JNum(150), JNum(638900), JStr("6389") } }

\* A line that is a JSON object with the keys source and content, with or
\* without a timestamp, and no client_reference (or a null one).  A content
\* of shape "Other" is one that the payload type of the line's own variant
\* accepts, and no other.
JsonLine(source, shape, properties, timestamp) ==
    [form |-> "json", source |-> Some(source),
     content |-> [shape |-> shape, properties |-> properties,
                  fits |-> IF shape = "Other" /\ source \in DOMAIN KnownSources
                           THEN {KnownSources[source]} ELSE {}],
     timestamp |-> timestamp, client_reference |-> None]
\* The line with a content that the payload types of `variants` accept.
WithFits(line, variants) == [line EXCEPT !.content.fits = variants]
\* The line without its source key, and with a client_reference.
WithoutSource(line) == [line EXCEPT !.source = None]
WithClientReference(line, reference) == [line EXCEPT !.client_reference = Some(reference)]
OtherLine(form) ==
    [form |-> form, source |-> None,
     content |-> [shape |-> "Invalid", properties |-> None, fits |-> {}],
     timestamp |-> None, client_reference |-> None]

\* Lines the log may hold: trajectory_schematic features over PropertyMaps, the
\* other shapes and discriminators, and lines that are no envelope.
LogLines ==
    { JsonLine("trajectory_schematic", "Feature", Some(p), Some(169745)) :
        p \in PropertyMaps }
    \cup { JsonLine("trajectory_schematic", "Feature", None, Some(169745)),
           JsonLine("trajectory_schematic", "FeatureCollection", None, Some(169745)),
           JsonLine("trajectory_schematic", "Invalid", None, Some(169745)),
           JsonLine("trajectory_schematic", "Feature", Some(BaseProperties), None),
           JsonLine("trajectory", "Feature", Some(BaseProperties), Some(169745)),
           JsonLine("station_schematic", "Feature", None, Some(169745)),
           JsonLine("deleted_vehicles_schematic", "Other", None, Some(169745)),
           JsonLine("healthcheck", "Other", None, Some(169745)),
           JsonLine("vehicle_occupancy", "Other", None, Some(169745)),
           JsonLine("vehicle_occupancy", "Other", None, None),
           JsonLine("healthcheck", "Invalid", None, None),
           WithoutSource(JsonLine("healthcheck", "Other", None, Some(169745))),
           WithFits(JsonLine("extra_geoms", "Feature", Some([ref |-> JStr("a")]),
                             Some(169745)), {"ExtraGeoms"}),
           WithFits(JsonLine("trajectory_schematic", "Feature",
                             Some([ref |-> JStr("a")]), Some(169745)), {"ExtraGeoms"}),
           WithFits(JsonLine("websocket", "Feature", None, Some(169745)),
                    {"Websocket"}),
           WithFits(JsonLine("deleted_vehicles", "Other", None, Some(169745)),
                    {"DeletedVehicles", "DeletedVehiclesSchematic", "ExtraGeoms"}),
           WithClientReference(
               JsonLine("trajectory_schematic", "Feature", Some(BaseProperties),
                        Some(169745)), 300),
           WithClientReference(
               JsonLine("trajectory_schematic", "Feature",
                        Some(With(BaseProperties, "vehicle_number", JStr("V2"))),
                        Some(169745)), 1),
           OtherLine("empty"), OtherLine("malformed"), OtherLine("invalid utf-8") }

\* The window before the first pass of the render loop: nothing drawn.
Blank == [idx |-> 0, calls |-> <<>>]

ScanInit ==
    /\ lines \in SeqsUpTo(LogLines, MaxLines)
    /\ cursor = 0
    /\ scan = "scanning"
    /\ trains = 0
    /\ counters = [delays |-> <<>>, states |-> <<>>, ride_states |-> <<>>,
                   original_lines |-> <<>>, lines |-> <<>>]
    /\ persistent_trains = <<>>
    /\ report = <<>>
    /\ inserted = <<>>
    /\ frame = 0
    /\ surface = Blank
    /\ yielded = FALSE

Outcome(stage1, train, record) == [stage1 |-> stage1, train |-> train, record |-> record]

\* One pass of `for line in reader.lines()`, lines 602-647.
ScanLine ==
    /\ scan = "scanning"
    /\ cursor < Len(lines)
    /\ cursor' = cursor + 1
    /\ LET line == lines[cursor + 1]
           m == DecodeEnvelope(line)
           train == TrainTryFrom(m.v.content)
           record == RecordTryFrom(m.v)
           counted == IF train.tag = "Ok" THEN trains + 1 ELSE trains
           tallied == IF train.tag = "Ok" THEN CountTrain(counters, train.v) ELSE counters
       IN IF line.form = "invalid utf-8"
          THEN /\ report' = Append(report, Outcome("io error", "NotCalled", "NotCalled"))
               /\ UNCHANGED <<scan, trains, counters, persistent_trains, inserted>>
          ELSE IF line.form = "empty"
          THEN /\ report' = Append(report, Outcome("empty", "NotCalled", "NotCalled"))
               /\ UNCHANGED <<scan, trains, counters, persistent_trains, inserted>>
          ELSE IF m.tag = "Err"
          THEN /\ report' = Append(report, Outcome(m.e, "NotCalled", "NotCalled"))
               /\ UNCHANGED <<scan, trains, counters, persistent_trains, inserted>>
          ELSE IF m.v.content.variant # "TrajectorySchematic"
          THEN /\ report' = Append(report, Outcome(m.v.content.variant, "NotCalled", "NotCalled"))
               /\ UNCHANGED <<scan, trains, counters, persistent_trains, inserted>>
          ELSE IF train.tag = "Panic"
          THEN /\ report' = Append(report, Outcome("TrajectorySchematic", "Panic", "NotCalled"))
               /\ scan' = "panicked"
               /\ UNCHANGED <<trains, counters, persistent_trains, inserted>>
          ELSE /\ report' = Append(report, Outcome("TrajectorySchematic", train.tag, record.tag))
               /\ trains' = counted
               /\ counters' = tallied
               /\ scan' = IF record.tag = "Panic" THEN "panicked" ELSE scan
               /\ persistent_trains' =
                    IF record.tag = "Ok" THEN TrainsInsert(persistent_trains, record.v)
                    ELSE persistent_trains
               /\ inserted' =
                    IF record.tag = "Ok" THEN Append(inserted, record.v) ELSE inserted
    /\ UNCHANGED <<lines, frame, surface, yielded, scraperVars, pureVars>>

\* reader.lines() is exhausted: the loop ends, the totals are printed and the
\* render loop is entered with i = 0.
ScanEnd ==
    /\ scan = "scanning"
    /\ cursor = Len(lines)
    /\ scan' = "done"
    /\ frame' = 0
    /\ UNCHANGED <<lines, cursor, trains, counters, persistent_trains, report,
                   inserted, surface, yielded, scraperVars, pureVars>>

ScanNext == ScanLine \/ ScanEnd

-----------------------------------------------------------------------------
(* analysis.rs: render, the render loop of main *)

\* screen_width() and screen_height(): the size of the window, in pixels.
ScreenWidth == 800
ScreenHeight == 600

\* Color::from_hex(0x009E_9E9E), the background of a pass.
ClearColor == "0x009E9E9E"

\* The bound of the `if i >= 995` of the render loop.
ReplayWrap == 995

\* fn map.  value, a_min and a_max are hundredths of a degree, b_min and b_max
\* pixels; the result is hundredths of a pixel (f32 rounding is not modelled).
Map(value, a_min, a_max, b_min, b_max) ==
    ((value - a_min) * (b_max - b_min) * 100) \div (a_max - a_min) + b_min * 100

\* Record::render: one draw_circle of radius 5.0 at the mapped position.
RecordRender(record) ==
    [op |-> "draw_circle",
     x |-> Map(record.position.longitude, 1100, 1200, 0, ScreenWidth),
     y |-> Map(record.position.latitude, 4750, 4850, ScreenHeight, 0),
     r |-> 500,
     color |-> record.line_color]

\* A render that clamps the index to the last element of the timeline.
VehicleRenderClamped(records, idx) ==
    IF idx + 1 \in DOMAIN records THEN <<RecordRender(records[idx + 1])>>
    ELSE <<RecordRender(Last(records))>>

\* Vehicle::render: self.records.get(idx) is the element at 0-based idx, if any.
VehicleRender(records, idx) ==
    IF idx + 1 \in DOMAIN records THEN <<RecordRender(records[idx + 1])>>
    ELSE <<>>

\* The orders in which HashMap::values() may yield the vehicles.
Orders(S) ==
    { o \in [1..Cardinality(S) -> S] : \A a, b \in DOMAIN o : o[a] = o[b] => a = b }

\* Trains::render, the vehicles visited in `order`.
RECURSIVE TrainsRender(_, _, _)
TrainsRender(history, order, idx) ==
    IF order = <<>> THEN <<>>
    ELSE VehicleRender(history[Head(order)], idx)
           \o TrainsRender(history, Tail(order), idx)

\* An increment that wraps one pass late.
NextIndexLate(i) == IF i + 1 > ReplayWrap THEN 0 ELSE i + 1

\* i += 1; if i >= 995 { i = 0; }
NextIndex(i) == IF i + 1 >= ReplayWrap THEN 0 ELSE i + 1

\* The first half of a pass of the render loop, lines 657-662: the background
\* is cleared, the trains are rendered at i, and next_frame().await hands
\* control to the event loop with i not yet moved on.
ReplayDraw ==
    /\ scan = "done"
    /\ ~yielded
    /\ \E order \in Orders(DOMAIN persistent_trains) :
          surface' =
            [idx |-> frame,
             calls |-> <<[op |-> "clear_background", color |-> ClearColor]>>
                         \o TrainsRender(persistent_trains, order, frame)
                         \o <<[op |-> "next_frame"]>>]
    /\ yielded' = TRUE
    /\ UNCHANGED <<scanVars, inserted, frame, scraperVars, pureVars>>

\* The second half, lines 663-667: main is resumed, sleeps 20 ms and moves i on.
ReplayResume ==
    /\ scan = "done"
    /\ yielded
    /\ surface' = [surface EXCEPT !.calls = Append(@, [op |-> "sleep", ms |-> 20])]
    /\ frame' = NextIndex(frame)
    /\ yielded' = FALSE
    /\ UNCHANGED <<scanVars, inserted, scraperVars, pureVars>>

\* Property maps of decodable records: a vehicle at a position, with a colour.
ReplayProperties(vehicle, longitude, latitude, color) ==
    With(With(With(BaseProperties,
                   "vehicle_number", JStr(vehicle)),
              "raw_coordinates", JArr(<<JNum(longitude), JNum(latitude)>>)),
         "line", JObj(With(BaseLine, "color", JStr(color))))

\* Lines of two vehicles; the second sighting of V1 carries the earlier
\* timestamp.
ReplayLines ==
    { JsonLine("trajectory_schematic", "Feature",
               Some(ReplayProperties(c[1], c[2], c[3], c[4])), Some(c[5])) :
        c \in { <<"V1", 1158, 4814, "#1A2B3C", 169745>>,
                 <<"V2", 1158, 4814, "#1A2B3C", 169745>>,
                 <<"V1", 1162, 4810, "#0A0B0C", 169700>> } }

\* A log of LongRunLen sightings of one vehicle, each at its own position.
LongRunLines ==
    [k \in 1..LongRunLen |->
        JsonLine("trajectory_schematic", "Feature",
                 Some(ReplayProperties("V1", 1100 + (k % 100), 4750 + (k \div 100),
                                       "#1A2B3C")),
                 Some(169745 + k))]

ReplayInit ==
    /\ lines \in SeqsUpTo(ReplayLines, MaxReplayLines) \cup {LongRunLines}
    /\ cursor = 0
    /\ scan = "scanning"
    /\ trains = 0
    /\ counters = [delays |-> <<>>, states |-> <<>>, ride_states |-> <<>>,
                   original_lines |-> <<>>, lines |-> <<>>]
    /\ persistent_trains = <<>>
    /\ report = <<>>
    /\ inserted = <<>>
    /\ frame = 0
    /\ surface = Blank
    /\ yielded = FALSE

ReplayNext == ScanLine \/ ScanEnd \/ ReplayDraw \/ ReplayResume

PureIdle == arg = JNull /\ ret = NotCalled
ScanIdle ==
    /\ lines = <<>>
    /\ cursor = 0
    /\ scan = "idle"
    /\ trains = 0
    /\ counters = <<>>
    /\ persistent_trains = <<>>
    /\ report = <<>>
    /\ inserted = <<>>
    /\ frame = 0
    /\ surface = Blank
    /\ yielded = FALSE

Init == ScraperInit /\ PureIdle /\ ScanIdle

Next ==
    \/ ConnectOk
    \/ ConnectFail
    \/ Tick
    \/ \E f \in Frames : RecvFrame(f)
    \/ \E f \in Frames : \E n \in 0..Len(f.payload) : WriteFail(f, n)
    \/ ReadErr

Spec == Init /\ [][Next]_vars

ScraperIdle ==
    /\ pc = "idle"
    /\ sent = <<>>
    /\ prior = <<>>
    /\ log = <<>>
    /\ now = 0
    /\ last_ping = 0
    /\ received = <<>>
    /\ recvAtConnect = 0
    /\ connections = 0
    /\ fatal = ""

CoordStart == ScraperIdle /\ CoordInit /\ ScanIdle

CoordSpec == CoordStart /\ [][CallCoordinate]_vars

ExtractStart == ScraperIdle /\ ExtractInit /\ ScanIdle

ExtractSpec == ExtractStart /\ [][CallExtract]_vars

ColorStart == ScraperIdle /\ ColorInit /\ ScanIdle

ColorSpec == ColorStart /\ [][CallColor]_vars

ScanStart == ScraperIdle /\ PureIdle /\ ScanInit

ScanSpec == ScanStart /\ [][ScanNext]_vars

ReplayStart == ScraperIdle /\ PureIdle /\ ReplayInit

ReplaySpec == ReplayStart /\ [][ReplayNext]_vars

\* main is one sequential control flow: a call to connect returns (Ok or Err)
\* and the clock advances.  Whether the peer delivers a frame, or the read
\* fails, is up to the network: no fairness on RecvFrame and ReadErr.
FairSpec == Spec /\ WF_vars(ConnectOk \/ ConnectFail) /\ WF_vars(Tick)

-----------------------------------------------------------------------------
(* Feed session: properties *)

\* The topics in the order the protocol description lists them.
ClaimTopics ==
    << "extra_geoms", "healthcheck", "sbm_newsticker", "station_schematic",
       "deleted_vehicles_schematic", "trajectory_schematic", "station",
       "deleted_vehicles", "trajectory" >>

GetSubPairs(topics) ==
    [i \in 1..(2 * Len(topics)) |->
        IF i % 2 = 1 THEN <<"GET", topics[(i + 1) \div 2]>>
                     ELSE <<"SUB", topics[i \div 2]>>]

NumPings(s) == Cardinality({i \in DOMAIN s : s[i] = PING})

\* C1: on every connection (the first and each reconnect) the commands sent
\* start with BBOX, BUFFER, then GET t, SUB t for the nine topics in the listed
\* order, then one PING, with nothing in between; and until the first frame
\* has been read nothing else has been sent.
C1_HandshakeOrder ==
    pc = "read" =>
        /\ Len(sent) >= 3 + 2 * Len(ClaimTopics)
        /\ sent[1][1] = "BBOX"
        /\ sent[2][1] = "BUFFER"
        /\ SubSeq(sent, 3, 2 + 2 * Len(ClaimTopics)) = GetSubPairs(ClaimTopics)
        /\ sent[3 + 2 * Len(ClaimTopics)] = PING
        /\ (Len(received) = recvAtConnect => Len(sent) = 3 + 2 * Len(ClaimTopics))

\* C1 witness: the session is reading on its second connection, a reconnect.
C1_Witness == pc = "read" /\ connections = 2 /\ recvAtConnect > 0

\* The bytes this run has appended to the log.
Appended == SubSeq(log, Len(prior) + 1, Len(log))

TextFrames == SelectSeq(received, LAMBDA f : f.type = "Text")

\* A line as BufRead::lines hands it out: without the line feed that ended
\* it and without one carriage return before that line feed.
StripCR(cur) ==
    IF cur # <<>> /\ Last(cur) = CR THEN SubSeq(cur, 1, Len(cur) - 1) ELSE cur

RECURSIVE SplitAcc(_, _, _)
SplitAcc(bytes, cur, acc) ==
    IF bytes = <<>> THEN (IF cur = <<>> THEN acc ELSE Append(acc, cur))
    ELSE IF Head(bytes) = LF
         THEN SplitAcc(Tail(bytes), <<>>, Append(acc, StripCR(cur)))
         ELSE SplitAcc(Tail(bytes), Append(cur, Head(bytes)), acc)

\* The lines of a file as BufRead::lines yields them.
SplitLines(bytes) == SplitAcc(bytes, <<>>, <<>>)

RECURSIVE Terminated(_)
Terminated(frames) ==
    IF frames = <<>> THEN <<>>
    ELSE Head(frames).payload \o <<LF>> \o Terminated(Tail(frames))

EndsWithCR(text) == text # <<>> /\ Last(text) = CR

HasLF(text) == \E i \in DOMAIN text : text[i] = LF

PayloadsOf(frames) == [i \in DOMAIN frames |-> frames[i].payload]

\* A reader of the log finds a first line that starts where the earlier
\* content ended.
PriorTerminated == prior = <<>> \/ Last(prior) = LF

\* C2 as stated: the earlier content of the log is kept, and the lines of
\* the log after the earlier ones are exactly the payloads of the received
\* text frames, one per line, in arrival order.
C2_LinesArePayloads ==
    /\ SubSeq(log, 1, Len(prior)) = prior
    /\ SplitLines(log) = SplitLines(prior) \o PayloadsOf(TextFrames)

WriteFailed == fatal = "writing message to file without error"

\* The text frames whose write to the log succeeded: all of them, or all
\* but the last when its write failed.
Complete ==
    IF WriteFailed THEN SubSeq(TextFrames, 1, Len(TextFrames) - 1) ELSE TextFrames

\* What the text frames left in the log, one piece each: the payload, or,
\* of a frame whose write failed, the bytes written before the failure
\* (no piece when there were none).
Pieces ==
    LET partial == SubSeq(Appended, Len(Terminated(Complete)) + 1, Len(Appended))
    IN PayloadsOf(Complete) \o (IF partial = <<>> THEN <<>> ELSE <<partial>>)

\* C2 amended: the earlier content of the log is always kept.  The bytes
\* this run appended are, for each received text frame in arrival order, its
\* payload followed by one line feed, and nothing for any other frame; a
\* text frame whose write failed leaves a prefix of its payload and no line
\* feed.  When no payload contains a line feed or ends with a carriage
\* return, a reader of the log finds these pieces one per line after the
\* earlier lines if the earlier content was empty or ended with a line feed;
\* otherwise the first piece continues the last earlier line.
C2_AppendedBytes ==
    /\ Len(log) >= Len(prior)
    /\ SubSeq(log, 1, Len(prior)) = prior
    /\ ~WriteFailed => Appended = Terminated(TextFrames)
    /\ WriteFailed =>
         /\ TextFrames # <<>>
         /\ \E n \in 0..Len(Last(TextFrames).payload) :
               Appended = Terminated(Complete)
                            \o SubSeq(Last(TextFrames).payload, 1, n)
    /\ (\A i \in DOMAIN TextFrames :
           ~HasLF(TextFrames[i].payload) /\ ~EndsWithCR(TextFrames[i].payload))
         => LET old == SplitLines(prior)
            IN IF PriorTerminated \/ Pieces = <<>>
               THEN SplitLines(log) = old \o Pieces
               ELSE SplitLines(log) =
                      SubSeq(old, 1, Len(old) - 1)
                        \o <<Last(old) \o Head(Pieces)>> \o Tail(Pieces)

\* C2 witness: a log whose earlier content ends in a line without a line
\* feed, then a single-line text frame on the first connection and another
\* on the second.
C2_Witness ==
    /\ ~PriorTerminated
    /\ connections = 2
    /\ recvAtConnect = 1
    /\ ~WriteFailed
    /\ Len(TextFrames) = 2
    /\ \A i \in DOMAIN TextFrames :
          ~HasLF(TextFrames[i].payload) /\ ~EndsWithCR(TextFrames[i].payload)

\* C3 as stated: once the first connection has been made, no connection
\* failure ends the session: main never panics on a failed connect.
C3_NeverFatalAfterStart == connections >= 1 => fatal # "should be able to connect"

\* C4 as stated: a connection that stays open and delivers no frames still
\* gets a keepalive: from the blocking read of a connection on which no frame
\* has arrived, either a frame arrives, or the connection ends, or a PING
\* beyond the one of the handshake is sent.
C4_SilentConnectionPinged ==
    (pc = "read" /\ Len(received) = recvAtConnect)
        ~> (pc # "read" \/ Len(received) > recvAtConnect \/ NumPings(sent) > 1)

\* C4 amended: a silent connection never trips the heartbeat: while the
\* session is blocked in the read, a step in which no frame is received sends
\* nothing and leaves last_ping alone, however long the silence has lasted.
C4_SilentConnectionSendsNothing ==
    [][(pc = "read" /\ received' = received)
          => (sent' = sent /\ last_ping' = last_ping)]_vars

\* C4 witness: blocked in the read with no frame received on this connection
\* and the heartbeat threshold long passed; only the handshake has been sent.
C4_Witness ==
    /\ pc = "read"
    /\ Len(received) = recvAtConnect
    /\ now - last_ping > PingThreshold
    /\ sent = HandshakeCommands

FrameReceived == Len(received') = Len(received) + 1
FurtherPing == sent' = Append(sent, PING)

\* C5 as stated: within a connection, after the PING of the handshake, a
\* further PING is sent exactly in the passes of the inner loop that receive a
\* frame other than Close while at least 10 seconds have passed since
\* last_ping; last_ping is the time of the latest PING (set with the handshake
\* PING and reset with each further one), so consecutive PINGs are at least
\* 10 seconds apart; nothing else is sent.
C5_HeartbeatExactlyWhenDue ==
    [][/\ (pc = "connect" /\ pc' = "read") => (last_ping' = now' /\ NumPings(sent') = 1)
       /\ pc = "read" =>
            /\ FurtherPing <=> (/\ FrameReceived
                                /\ Last(received').type # "Close"
                                /\ now - last_ping >= PingThreshold)
            /\ FurtherPing => (last_ping' = now' /\ now' - last_ping >= PingThreshold)
            /\ ~FurtherPing => (sent' = sent /\ last_ping' = last_ping)]_vars

-----------------------------------------------------------------------------
(* Coordinate::try_from: properties *)

IsPair(v) == v.k = "arr" /\ Len(v.a) = 2
Called == ret # NotCalled

\* C7: for an array of exactly two numbers [a, b] the result is a Coordinate
\* with longitude = a (index 0) and latitude = b (index 1).
C7_LongitudeThenLatitude ==
    (Called /\ IsPair(arg) /\ arg.a[1].k = "num" /\ arg.a[2].k = "num") =>
        /\ ret.tag = "Ok"
        /\ ret.v.longitude = arg.a[1].c
        /\ ret.v.latitude = arg.a[2].c

\* C7 witness: [11.58, 48.14] has been decoded.
C7_Witness == Called /\ arg = JArr(<<JNum(1158), JNum(4814)>>)

\* C8 as stated: an array whose length n is not 2 gives MissingItems(2, n).
C8_MissingItemsExpectedTwo ==
    (Called /\ arg.k = "arr" /\ Len(arg.a) # 2) =>
        ret = Err(MissingItems(2, Len(arg.a)))

\* C9 as stated: a two-element array with an entry that is no number gives
\* the error IncorrectType as a value: no panic, no Coordinate.
C9_NonNumericIsIncorrectType ==
    (Called /\ IsPair(arg) /\ (arg.a[1].k # "num" \/ arg.a[2].k # "num")) =>
        (ret.tag = "Err" /\ ret.e[1] = "IncorrectType")

-----------------------------------------------------------------------------
(* Offline scan: properties *)

\* The discriminators the interface description lists as known.
ClaimKnownDiscriminators ==
    {"trajectory", "trajectory_schematic", "station", "station_schematic",
     "deleted_vehicles", "deleted_vehicles_schematic", "websocket", "extra_geoms",
     "healthcheck", "sbm_newsticker"}

\* C6 as stated: a well-formed JSON line (an envelope with its timestamp
\* and a client_reference that fits) whose discriminator is not a known one
\* decodes to the explicit "unrecognized" content, never to an error.
C6_UnknownDiscriminatorAccepted ==
    \A i \in DOMAIN report :
        (/\ lines[i].form = "json"
         /\ lines[i].timestamp.some
         /\ FitsI8(lines[i].client_reference)
         /\ lines[i].source.some
         /\ lines[i].source.v \notin ClaimKnownDiscriminators)
            => report[i].stage1 = "Unrecognized"

\* C10 as stated: the scan never aborts; it consumes every line and reaches
\* the end of the log whatever the lines hold.
C10_ScanReachesEnd ==
    /\ scan # "panicked"
    /\ scan = "done" => Len(report) = Len(lines)

\* The consumed lines that are trajectory-schematic envelopes.
Envelopes ==
    { n \in 1..cursor :
        /\ DecodeEnvelope(lines[n]).tag = "Ok"
        /\ DecodeEnvelope(lines[n]).v.content.variant = "TrajectorySchematic" }

TrainDecodes(n) == TrainTryFrom(DecodeEnvelope(lines[n]).v.content).tag = "Ok"
RecordDecodes(n) == RecordTryFrom(DecodeEnvelope(lines[n]).v).tag = "Ok"

\* The elements held by a vehicle history, as (vehicle number, index) pairs.
Held(history) ==
    UNION { { <<v, k>> : k \in DOMAIN history[v] } : v \in DOMAIN history }

\* C11 as stated: the two projections of an envelope are independent.  The
\* history holds one record for each consumed envelope whose Record decode
\* succeeds, whatever its Train decode does, and the train total counts
\* each consumed envelope whose Train decode succeeds, whatever its Record
\* decode does.
C11_ProjectionsIndependent ==
    /\ Cardinality(Held(persistent_trains))
         = Cardinality({ n \in Envelopes : RecordDecodes(n) })
    /\ trains = Cardinality({ n \in Envelopes : TrainDecodes(n) })

-----------------------------------------------------------------------------
(* Vehicle history and replay: properties *)

\* The inserted records of vehicle v, in insertion order.
InsertedOf(records, v) == SelectSeq(records, LAMBDA r : r.vehicle_number = v)

\* The history holds the vehicles of the inserted records, each with the
\* subsequence of its records in insertion order.
TimelinesFollowInserts ==
    /\ DOMAIN persistent_trains = { inserted[n].vehicle_number : n \in DOMAIN inserted }
    /\ \A v \in DOMAIN persistent_trains :
          persistent_trains[v] = InsertedOf(inserted, v)

\* A step that inserts a record appends it to the timeline of its vehicle (a
\* new timeline of one element for an unseen vehicle), keeps the earlier
\* elements of that timeline and every other timeline, and removes no vehicle.
InsertAppends ==
    inserted' # inserted =>
        LET r == Last(inserted')
            v == r.vehicle_number
        IN /\ inserted' = Append(inserted, r)
           /\ DOMAIN persistent_trains' = DOMAIN persistent_trains \cup {v}
           /\ persistent_trains'[v] =
                 IF v \in DOMAIN persistent_trains
                 THEN Append(persistent_trains[v], r) ELSE <<r>>
           /\ \A w \in DOMAIN persistent_trains \ {v} :
                 persistent_trains'[w] = persistent_trains[w]

\* C12: after any interleaved sequence of inserts the timeline of every
\* vehicle number is exactly the subsequence of the inserted records with
\* that vehicle number, in insertion order whatever the timestamps; an
\* insert appends one element to the timeline of its vehicle and changes
\* nothing else; a step that inserts nothing leaves the history as it is.
C12_TimelinesInInsertionOrder ==
    /\ []TimelinesFollowInserts
    /\ [][InsertAppends]_vars
    /\ [][inserted' = inserted => persistent_trains' = persistent_trains]_vars

\* V1, V2, V1 were inserted, the second V1 record older than the first.
C12_Witness ==
    /\ Len(inserted) = 3
    /\ inserted[1].vehicle_number = "V1"
    /\ inserted[2].vehicle_number = "V2"
    /\ inserted[3].vehicle_number = "V1"
    /\ inserted[3].timestamp < inserted[1].timestamp
    /\ Len(persistent_trains["V1"]) = 2

\* The circles of the latest pass of the render loop, in drawing order.
Circles == SelectSeq(surface.calls, LAMBDA c : c.op = "draw_circle")

\* The vehicles whose timeline has an element at 0-based index idx.
Visible(idx) == { v \in DOMAIN persistent_trains : Len(persistent_trains[v]) > idx }

\* The circles are, in some order of the visible vehicles, one circle per
\* vehicle, drawn from its element at the rendered index.
RenderedRight ==
    \E o \in Orders(Visible(surface.idx)) :
        Circles = [n \in 1..Len(o) |->
                     RecordRender(persistent_trains[o[n]][surface.idx + 1])]

\* C13: a render at an index draws exactly one circle for each vehicle whose
\* timeline is longer than the index, at the position and in the line colour
\* of the element at that index, and no circle for a vehicle whose timeline
\* is not longer than the index (no extrapolation, no holding of the last
\* position); a pass of the render loop leaves the history as it is.
C13_RenderDrawsElementAtIndex ==
    /\ [](surface.calls # <<>> => RenderedRight)
    /\ [][surface' # surface => persistent_trains' = persistent_trains]_vars

\* Index 1 was rendered with two sightings of V1 and one of V2: one circle,
\* the second sighting of V1.
C13_Witness ==
    /\ surface.calls # <<>>
    /\ surface.idx = 1
    /\ DOMAIN persistent_trains = {"V1", "V2"}
    /\ Len(persistent_trains["V1"]) = 2
    /\ Len(persistent_trains["V2"]) = 1
    /\ Circles = <<RecordRender(persistent_trains["V1"][2])>>

\* The calls of a pass up to its yield: clear_background once, then the
\* circles of the render, then next_frame once.
DrawnInOrder(calls) ==
    /\ Len(calls) >= 2
    /\ calls[1].op = "clear_background"
    /\ \A n \in 2..(Len(calls) - 1) : calls[n].op = "draw_circle"
    /\ calls[Len(calls)].op = "next_frame"

\* A pass renders the current index and yields with the index unmoved; when
\* it is resumed it pauses and moves the index on by one, back to 0 after
\* 994; nothing else moves the index or draws.
PassAdvances ==
    /\ (~yielded /\ yielded') =>
          /\ surface'.idx = frame
          /\ DrawnInOrder(surface'.calls)
          /\ frame' = frame
    /\ (yielded /\ ~yielded') =>
          /\ frame' = (frame + 1) % 995
          /\ surface' = [surface EXCEPT !.calls = Append(@, [op |-> "sleep", ms |-> 20])]
    /\ (yielded' = yielded) => (frame' = frame /\ surface' = surface)

\* No circle of the latest pass is drawn from an element at 0-based index
\* 995 or higher.
TailNeverDrawn ==
    \A v \in DOMAIN persistent_trains :
        \A k \in DOMAIN persistent_trains[v] :
            k > 995 =>
                \A n \in DOMAIN Circles :
                    Circles[n] # RecordRender(persistent_trains[v][k])

\* C14: the replay index is 0 when the render loop is entered, each pass
\* clears the background, renders the current index and yields, in that
\* order and once each, and once resumed moves the index on by one, back to
\* 0 after 994; the index passed to render is always within 0..994, whatever the
\* length of the timelines, so an element at index 995 or higher is never
\* drawn.
C14_ReplayIndexWraps ==
    /\ [](frame \in 0..994 /\ surface.idx \in 0..994 /\ TailNeverDrawn)
    /\ []((scan = "done" /\ surface.calls = <<>>) => frame = 0)
    /\ [][PassAdvances]_vars

\* The pass at index 994 was made over timelines of two and one elements:
\* it drew no circle, and the next pass renders index 0.
C14_Witness ==
    /\ DOMAIN persistent_trains = {"V1", "V2"}
    /\ Len(persistent_trains["V1"]) = 2
    /\ surface.idx = 994
    /\ ~yielded
    /\ Last(surface.calls).op = "sleep"
    /\ Circles = <<>>
    /\ frame = 0

-----------------------------------------------------------------------------
(* Colour parsing: properties *)

\* '#' followed by six hex digits.
IsHexColor(s) ==
    Len(s) = 7 /\ s[1] = "#" /\ \A n \in 2..7 : IsHexDigit(s[n])

\* The number of characters of a string given as bytes.
CharLen(s) == Cardinality({ n \in DOMAIN s : s[n] # ContinuationByte })

\* C15 as stated: colour parsing is total.  '#' and six hex digits give the
\* three bytes over 255 with alpha 1.0; a string without the leading '#' is
\* the wrong-prefix error; seven characters with '#' and a character that
\* is no hex digit are the parse error; a string that is not seven
\* characters long is an error, never a colour and never a crash.
C15_ColorParsingTotal ==
    Called =>
        /\ ret.tag \in {"Ok", "Err"}
        /\ IsHexColor(arg) =>
              ret = Ok([r |-> HexNumber(SubSeq(arg, 2, 3), 0),
                        g |-> HexNumber(SubSeq(arg, 4, 5), 0),
                        b |-> HexNumber(SubSeq(arg, 6, 7), 0),
                        a |-> 255])
        /\ (arg = <<>> \/ arg[1] # "#") => ret = Err(<<"WrongBeginning">>)
        /\ (CharLen(arg) = 7 /\ arg[1] = "#" /\ ~IsHexColor(arg)) =>
              (ret.tag = "Err" /\ ret.e[1] = "ParseInt")
        /\ CharLen(arg) # 7 => ret.tag = "Err"

-----------------------------------------------------------------------------
(* Typed accessors: properties *)

Required == arg.accessor \in {"String", "i64"}

\* The value has the JSON kind the accessor reads: a string, or a number
\* written as an integer.
Fits(v) ==
    IF arg.accessor \in {"String", "Option<String>"} THEN v.k = "str"
    ELSE v.k = "num" /\ ~v.float

\* The value has another kind than the accessor reads: any value that does
\* not fit, but a null read as optional and a whole number written with a
\* fraction (3.0) read as an integer.
WrongKind(v) ==
    /\ ~Fits(v)
    /\ ~(v.k = "null" /\ ~Required)
    /\ ~(arg.accessor \in {"i64", "Option<i64>"} /\ v.k = "num" /\ v.c % 100 = 0)

\* The value of a fitting JSON value.
Plain(v) == IF v.k = "str" THEN v.s ELSE v.c \div 100

\* C16 as stated: every typed accessor follows one taxonomy and never
\* crashes.  A missing key is MissingProperty(name) for a required field and
\* no value for an optional one; a null is no value for an optional field;
\* a value of the right kind is read; any other value (a non-integer number
\* where an integer is read and a null for a required field included) is
\* IncorrectValueType carrying that value, never no value.
C16_AccessorTaxonomy ==
    Called =>
        LET got == Get(arg.map, arg.field_name) IN
        /\ ret.tag \in {"Ok", "Err"}
        /\ ~got.some =>
              IF Required THEN ret = Err(MissingProperty(arg.field_name))
              ELSE ret.tag = "Ok" /\ ret.v = None
        /\ (got.some /\ got.v.k = "null" /\ ~Required) =>
              (ret.tag = "Ok" /\ ret.v = None)
        /\ (got.some /\ Fits(got.v)) =>
              /\ ret.tag = "Ok"
              /\ ret.v = IF Required THEN Plain(got.v) ELSE Some(Plain(got.v))
        /\ (got.some /\ WrongKind(got.v)) =>
              /\ ret.tag = "Err"
              /\ ret.e[1] = "IncorrectValueType"
              /\ ret.e[3] = got.v

====
